---- MODULE Spec2Model ----
(***************************************************************************)
(* Library Statistics Dashboard (src/lib.py).                              *)
(*                                                                         *)
(* The script is re-run from top to bottom whenever a sidebar control      *)
(* changes.  One run ("pass") reads the loaded table df and the widget     *)
(* state (date_range, selected), and produces the filtered view, the four  *)
(* metrics, the charts, the table preview and the download.  The state of  *)
(* the model is the loaded table, the widget state and what the last pass  *)
(* put on the page.                                                        *)
(*                                                                         *)
(* A DataFrame is [columns |-> sequence of column names,                   *)
(*                 rows    |-> sequence of [index |-> label, data |-> row]]*)
(* where a row maps each column name to its value.  Absent values:         *)
(* NA ("NA", which read_csv reads as NaN) for text columns, NaT for the    *)
(* date columns, NaN for days_on_loan, and the empty text for              *)
(* overdue_status (an empty CSV field is read as NaN).                     *)
(* A timestamp is a number of ticks; a day has TicksPerDay ticks.          *)
(* overdue_status is a sequence of characters so that the substring match  *)
(* is computed.                                                            *)
(***************************************************************************)
EXTENDS Integers, Sequences, FiniteSets, TLC

VARIABLES df, date_range, selected, filtered_df, error, metrics, charts,
          table_shown, download

vars == <<df, date_range, selected, filtered_df, error, metrics, charts,
          table_shown, download>>

----------------------------------------------------------------------------
(* Bounds of the model *)

MaxRows == 2

TicksPerDay == 2

DaysPerMonth == 2

NTitles == 11

MaxMissing == 1

----------------------------------------------------------------------------
(* Absent values *)

NA == "NA"

NaT == -1

NaN == -1

NoText == <<>>

----------------------------------------------------------------------------
(* Generic helpers *)

Range(s) == {s[i] : i \in 1..Len(s)}

MinOf(S) == CHOOSE x \in S : \A y \in S : x <= y

MaxOf(S) == CHOOSE x \in S : \A y \in S : x >= y

\* Series.dt.date / Timestamp.date(): the calendar day of a timestamp
DateOf(ts) == IF ts = NaT THEN NaT ELSE ts \div TicksPerDay

\* the calendar month a day falls in
MonthOf(day) == day \div DaysPerMonth

----------------------------------------------------------------------------
(* Columns *)

AllColumns ==
  << "borrower_id", "book_title", "genre", "borrower_type", "student_batch",
     "student_major", "borrower_age_group", "issue_date", "due_date",
     "return_date", "overdue_status", "days_on_loan" >>

date_cols == << "issue_date", "due_date", "return_date" >>

filter_options ==
  << "genre", "borrower_type", "student_batch", "student_major",
     "borrower_age_group" >>

HasColumn(frame, col) == col \in Range(frame.columns)

\* frame[col] as the sequence of its values
Column(frame, col) == [i \in 1..Len(frame.rows) |-> frame.rows[i].data[col]]

\* frame[mask]: the frame with the rows kept by a mask, index labels and order
\* retained
Masked(frame, kept) == [columns |-> frame.columns, rows |-> kept]

\* DataFrame.empty
IsEmpty(frame) == Len(frame.rows) = 0 \/ Len(frame.columns) = 0

----------------------------------------------------------------------------
(* Sidebar filters *)

\* the issue_date values that are present
IssueDates(frame) ==
  {frame.rows[i].data["issue_date"] : i \in 1..Len(frame.rows)} \ {NaT}

\* df['issue_date'].min().date() : min() skips NaT
min_date(frame) == DateOf(MinOf(IssueDates(frame)))

\* df['issue_date'].max().date()
max_date(frame) == DateOf(MaxOf(IssueDates(frame)))

\* st.sidebar.slider can be built: the observed minimum and maximum are dates
\* and min_value lies before max_value
SliderDefined(frame) ==
  HasColumn(frame, "issue_date") =>
     /\ IssueDates(frame) # {}
     /\ min_date(frame) < max_date(frame)

\* DateMask with the upper bound excluded
DateMaskExclusive(r, range) ==
  /\ DateOf(r.data["issue_date"]) # NaT
  /\ DateOf(r.data["issue_date"]) >= range[1]
  /\ DateOf(r.data["issue_date"]) < range[2]

\* (issue_date.dt.date >= date_range[0]) & (issue_date.dt.date <= date_range[1]);
\* a comparison with NaT is False
DateMask(r, range) ==
  /\ DateOf(r.data["issue_date"]) # NaT
  /\ DateOf(r.data["issue_date"]) >= range[1]
  /\ DateOf(r.data["issue_date"]) <= range[2]

\* the date filter
DateFilter(frame, range) ==
  IF HasColumn(frame, "issue_date")
  THEN Masked(frame, SelectSeq(frame.rows, LAMBDA r : DateMask(r, range)))
  ELSE frame

\* options with NaN left out
options_dropna(frame, col) == Range(Column(frame, col)) \ {NA}

\* df[col].unique(): the observed values, NaN included
options(frame, col) == Range(Column(frame, col))

\* Series.isin(values): NaN matches NaN
IsIn(value, values) == value \in values

\* FilterStep with the mask applied to the loaded table, not to the view so far
FilterStepFromTable(frame, view, col, sel) ==
  IF HasColumn(frame, col)
  THEN IF sel[col] # {}
       THEN Masked(frame, SelectSeq(frame.rows, LAMBDA r : IsIn(r.data[col], sel[col])))
       ELSE view
  ELSE view

\* FilterStep without the test of an empty selection
FilterStepNoGuard(frame, view, col, sel) ==
  IF HasColumn(frame, col)
  THEN Masked(view, SelectSeq(view.rows, LAMBDA r : IsIn(r.data[col], sel[col])))
  ELSE view

\* the body of the loop over filter_options for one column
FilterStep(frame, view, col, sel) ==
  IF HasColumn(frame, col)
  THEN IF sel[col] # {}
       THEN Masked(view, SelectSeq(view.rows, LAMBDA r : IsIn(r.data[col], sel[col])))
       ELSE view
  ELSE view

RECURSIVE FilterLoop(_, _, _, _)
\* the loop over filter_options, from its i-th entry on
FilterLoop(frame, view, sel, i) ==
  IF i > Len(filter_options) THEN view
  ELSE FilterLoop(frame, FilterStep(frame, view, filter_options[i], sel), sel, i + 1)

\* df.copy()
Copy(frame) == frame

\* filtered_df as it stands after the sidebar section
Filtered(frame, range, sel) ==
  FilterLoop(frame, DateFilter(Copy(frame), range), sel, 1)

\* the categorical columns that have a multiselect
FilterColumns(frame) == {c \in Range(filter_options) : HasColumn(frame, c)}

\* the widget state of a fresh session: value=(min_date, max_date), default=options
DefaultRange(frame) ==
  IF HasColumn(frame, "issue_date") THEN <<min_date(frame), max_date(frame)>> ELSE <<>>

DefaultSelected(frame) == [c \in FilterColumns(frame) |-> options(frame, c)]

----------------------------------------------------------------------------
(* Key metrics *)

Late == << "L", "a", "t", "e" >>

Overdue == << "O", "v", "e", "r", "d", "u", "e" >>

\* pat occurs in text (case-sensitive)
Contains(text, pat) ==
  \E i \in 1..(Len(text) - Len(pat) + 1) : SubSeq(text, i, i + Len(pat) - 1) = pat

\* Series.str.contains('Late|Overdue', na=False) for one value
StrContains(text) ==
  IF text = NoText THEN FALSE ELSE Contains(text, Late) \/ Contains(text, Overdue)

\* Series.nunique(): distinct values, NaN not counted
NUnique(frame, col) == Cardinality(Range(Column(frame, col)) \ {NA})

\* Series.isna().sum() on return_date
IsNaSum(frame) == Len(SelectSeq(frame.rows, LAMBDA r : r.data["return_date"] = NaT))

\* Series.str.contains(...).sum() on overdue_status
LateSum(frame) ==
  Len(SelectSeq(frame.rows, LAMBDA r : StrContains(r.data["overdue_status"])))

\* dtype of the overdue_status column as read_csv infers it: object when the
\* column holds a string (or the file has no rows), float64 when every field is empty
IsObjectDtype(frame) ==
  \/ Len(frame.rows) = 0
  \/ \E i \in 1..Len(frame.rows) : frame.rows[i].data["overdue_status"] # NoText

\* what building the metrics list raises: the three columns are subscripted
\* unconditionally, and .str needs a string column (a filtered view keeps the
\* columns and the dtypes of the loaded table, so the loaded table decides)
MetricsError(frame) ==
  IF ~HasColumn(frame, "borrower_id") THEN "KeyError: borrower_id"
  ELSE IF ~HasColumn(frame, "return_date") THEN "KeyError: return_date"
  ELSE IF ~HasColumn(frame, "overdue_status") THEN "KeyError: overdue_status"
  ELSE IF ~IsObjectDtype(frame) THEN "AttributeError: .str"
  ELSE "none"

\* the metrics list
Metrics(view) ==
  << << "Total Books Issued", Len(view.rows) >>,
     << "Unique Borrowers", NUnique(view, "borrower_id") >>,
     << "Books Not Returned", IsNaSum(view) >>,
     << "Late Returns", LateSum(view) >> >>

----------------------------------------------------------------------------
(* Visualizations *)

TopN == 10

RECURSIVE Tally(_, _, _)
\* the distinct values of values[i..] added to acc, a sequence of <<value, count>>
\* in the order the values are first met; NaN is dropped
Tally(values, i, acc) ==
  IF i > Len(values) THEN acc
  ELSE IF values[i] = NA THEN Tally(values, i + 1, acc)
  ELSE IF \E k \in 1..Len(acc) : acc[k][1] = values[i]
       THEN Tally(values, i + 1,
                  [k \in 1..Len(acc) |->
                     IF acc[k][1] = values[i] THEN <<acc[k][1], acc[k][2] + 1>>
                     ELSE acc[k]])
       ELSE Tally(values, i + 1, Append(acc, <<values[i], 1>>))

\* item put into a sequence sorted descending by count, after the entries whose
\* count is not smaller (a stable sort)
InsertDesc(sorted, item) ==
  LET p == Cardinality({k \in 1..Len(sorted) : sorted[k][2] >= item[2]})
  IN SubSeq(sorted, 1, p) \o <<item>> \o SubSeq(sorted, p + 1, Len(sorted))

RECURSIVE SortDesc(_, _, _)
\* items[i..] inserted into sorted
SortDesc(items, i, sorted) ==
  IF i > Len(items) THEN sorted
  ELSE SortDesc(items, i + 1, InsertDesc(sorted, items[i]))

\* Series.value_counts(): NaN dropped, descending by count, equal counts in
\* the order the values are first met; a sequence of <<value, count>>
ValueCounts(values) == SortDesc(Tally(values, 1, <<>>), 1, <<>>)

\* Series.head(n)
HeadN(s, n) == IF Len(s) <= n THEN s ELSE SubSeq(s, 1, n)

\* popular_books with the first ten titles met, not the ten most borrowed
popular_books_unsorted(view) == HeadN(Tally(Column(view, "book_title"), 1, <<>>), TopN)

\* value_counts().head(10) of book_title
popular_books(view) == HeadN(ValueCounts(Column(view, "book_title")), TopN)

genre_counts(view) == ValueCounts(Column(view, "genre"))

borrower_counts(view) == ValueCounts(Column(view, "borrower_type"))

\* groupby(pd.Grouper(key='issue_date', freq='M')).size(): one bin per month from
\* the first to the last month of the view, empty months counted 0
monthly_data(view) ==
  LET months == {MonthOf(DateOf(view.rows[i].data["issue_date"])) :
                    i \in {j \in 1..Len(view.rows) : view.rows[j].data["issue_date"] # NaT}}
  IN IF months = {} THEN <<>>
     ELSE [k \in 1..(MaxOf(months) - MinOf(months) + 1) |->
            << MinOf(months) + k - 1,
               Len(SelectSeq(view.rows, LAMBDA r :
                    /\ r.data["issue_date"] # NaT
                    /\ MonthOf(DateOf(r.data["issue_date"])) = MinOf(months) + k - 1)) >>]

\* the genres in sorted order, as groupby lists its keys
GenreOrder == << "Drama", "Fiction", "Poetry" >>

\* groupby('genre')['days_on_loan'].mean().sort_values(ascending=False): a sequence
\* of <<genre, sum, n>> (mean = sum / n, NaN when n = 0), NaN means last
avg_loan(view) ==
  LET keys == SelectSeq(GenreOrder, LAMBDA g : g \in Range(Column(view, "genre")))
      Rows(g) == {i \in 1..Len(view.rows) : /\ view.rows[i].data["genre"] = g
                                            /\ view.rows[i].data["days_on_loan"] # NaN}
      RECURSIVE SumOver(_)
      SumOver(S) == IF S = {} THEN 0
                    ELSE LET i == CHOOSE x \in S : TRUE
                         IN view.rows[i].data["days_on_loan"] + SumOver(S \ {i})
      Sum(k) == SumOver(Rows(keys[k]))
      N(k) == Cardinality(Rows(keys[k]))
      Before(j, k) ==
        IF N(k) = 0 THEN N(j) > 0 \/ j < k
        ELSE /\ N(j) > 0
             /\ \/ Sum(j) * N(k) > Sum(k) * N(j)
                \/ Sum(j) * N(k) = Sum(k) * N(j) /\ j < k
      Rank(k) == 1 + Cardinality({j \in 1..Len(keys) : Before(j, k)})
  IN [p \in 1..Len(keys) |->
        LET k == CHOOSE x \in 1..Len(keys) : Rank(x) = p
        IN << keys[k], Sum(k), N(k) >>]

\* the charts of one pass, in page order, each <<title, data>>
Charts(view) ==
  (IF HasColumn(view, "issue_date")
     THEN << << "Books Issued Each Month", monthly_data(view) >> >> ELSE <<>>)
  \o (IF HasColumn(view, "book_title")
     THEN << << "Top 10 Most Borrowed Books", popular_books(view) >> >> ELSE <<>>)
  \o (IF HasColumn(view, "genre")
     THEN << << "Book Genre Distribution", genre_counts(view) >> >> ELSE <<>>)
  \o (IF HasColumn(view, "borrower_type")
     THEN << << "Books Issued by Borrower Type", borrower_counts(view) >> >> ELSE <<>>)
  \o (IF HasColumn(view, "days_on_loan") /\ HasColumn(view, "genre")
     THEN << << "Average Loan Duration by Genre", avg_loan(view) >> >> ELSE <<>>)

----------------------------------------------------------------------------
(* Data export *)

\* the value is the absent value of its column
IsAbsent(col, value) ==
  IF col \in Range(date_cols) THEN value = NaT
  ELSE IF col = "days_on_loan" THEN value = NaN
  ELSE IF col = "overdue_status" THEN value = NoText
  ELSE value = NA

\* a spreadsheet cell: blank for an absent value
Cell(col, value) == IF IsAbsent(col, value) THEN <<>> ELSE <<value>>

\* df.to_excel(writer, index=False): the header row, then one row per record
convert_to_excel(view) ==
  << view.columns >> \o
  [i \in 1..Len(view.rows) |->
     [j \in 1..Len(view.columns) |-> Cell(view.columns[j], view.rows[i].data[view.columns[j]])]]

----------------------------------------------------------------------------
(* One run of the script *)

\* Render with the metrics computed from the loaded table, not from the view
RenderMetricsOfTable(frame, range, sel) ==
  LET view == Filtered(frame, range, sel)
      ok == MetricsError(frame) = "none"
  IN [ df |-> frame,
       filtered_df |-> view,
       error |-> MetricsError(frame),
       metrics |-> IF ok THEN Metrics(frame) ELSE <<>>,
       charts |-> IF ok /\ ~IsEmpty(view) THEN Charts(view) ELSE <<>>,
       table_shown |-> ok,
       download |-> IF ok /\ ~IsEmpty(view) THEN << convert_to_excel(view) >> ELSE <<>> ]

\* Render with the filters applied to the loaded table in place
RenderInPlace(frame, range, sel) ==
  LET view == Filtered(frame, range, sel)
      ok == MetricsError(frame) = "none"
  IN [ df |-> view,
       filtered_df |-> view,
       error |-> MetricsError(frame),
       metrics |-> IF ok THEN Metrics(view) ELSE <<>>,
       charts |-> IF ok /\ ~IsEmpty(view) THEN Charts(view) ELSE <<>>,
       table_shown |-> ok,
       download |-> IF ok /\ ~IsEmpty(view) THEN << convert_to_excel(view) >> ELSE <<>> ]

\* what one run leaves behind, given the loaded table and the widget state: the
\* table, the view and the page; an exception while the metrics list is built
\* ends the run, so nothing after the sidebar is shown
Render(frame, range, sel) ==
  LET view == Filtered(frame, range, sel)
      ok == MetricsError(frame) = "none"
  IN [ df |-> frame,
       filtered_df |-> view,
       error |-> MetricsError(frame),
       metrics |-> IF ok THEN Metrics(view) ELSE <<>>,
       charts |-> IF ok /\ ~IsEmpty(view) THEN Charts(view) ELSE <<>>,
       table_shown |-> ok,
       download |-> IF ok /\ ~IsEmpty(view) THEN << convert_to_excel(view) >> ELSE <<>> ]

----------------------------------------------------------------------------
(* Loaded tables *)

Returned == << "R", "e", "t", "u", "r", "n", "e", "d", " " >>

LowerLate == << "l", "a", "t", "e" >>

\* a timestamp: tick t of day d
At(d, t) == d * TicksPerDay + t

\* lending records the loaded tables are made of
Pool ==
  << [ borrower_id |-> "b1", book_title |-> "Dune", genre |-> "Fiction",
       borrower_type |-> "Student", student_batch |-> "2023",
       student_major |-> "CS", borrower_age_group |-> "18-25",
       issue_date |-> At(0, 0), due_date |-> At(1, 0), return_date |-> NaT,
       overdue_status |-> Overdue, days_on_loan |-> NaN ],
     [ borrower_id |-> "b1", book_title |-> "Dune", genre |-> "Fiction",
       borrower_type |-> "Faculty", student_batch |-> NA,
       student_major |-> "CS", borrower_age_group |-> "18-25",
       issue_date |-> At(2, TicksPerDay - 1), due_date |-> At(3, 0),
       return_date |-> At(4, 0),
       overdue_status |-> Returned \o Late, days_on_loan |-> 3 ],
     [ borrower_id |-> "b2", book_title |-> "Emma", genre |-> "Drama",
       borrower_type |-> "Student", student_batch |-> "2023",
       student_major |-> "CS", borrower_age_group |-> "18-25",
       issue_date |-> At(1, 0), due_date |-> At(2, 0), return_date |-> At(2, 0),
       overdue_status |-> LowerLate, days_on_loan |-> 1 ],
     [ borrower_id |-> NA, book_title |-> NA, genre |-> NA,
       borrower_type |-> "Student", student_batch |-> NA,
       student_major |-> "CS", borrower_age_group |-> "18-25",
       issue_date |-> NaT, due_date |-> NaT, return_date |-> NaT,
       overdue_status |-> NoText, days_on_loan |-> NaN ],
     [ borrower_id |-> "b3", book_title |-> "Emma", genre |-> NA,
       borrower_type |-> "Faculty", student_batch |-> "2023",
       student_major |-> "CS", borrower_age_group |-> "18-25",
       issue_date |-> At(0, TicksPerDay - 1), due_date |-> At(1, 0),
       return_date |-> NaT,
       overdue_status |-> NoText, days_on_loan |-> 2 ],
     [ borrower_id |-> "b2", book_title |-> "Ulysses", genre |-> "Poetry",
       borrower_type |-> "Student", student_batch |-> "2023",
       student_major |-> "CS", borrower_age_group |-> "18-25",
       issue_date |-> At(1, TicksPerDay - 1), due_date |-> At(2, 0),
       return_date |-> At(3, 0),
       overdue_status |-> NoText, days_on_loan |-> 2 ] >>

\* load_data(): the table with the given columns and records; RangeIndex 0..n-1
load_data(columns, records) ==
  [ columns |-> columns,
    rows |-> [i \in 1..Len(records) |->
                [ index |-> i - 1,
                  data |-> [c \in Range(columns) |-> records[i][c]] ]] ]

\* the tables of at most n records of a pool: records in pool order, a record
\* may repeat
Tables(pool, n) ==
  UNION {{[i \in 1..k |-> pool[f[i]]] :
            f \in {g \in [1..k -> 1..Len(pool)] :
                     \A i \in 1..k, j \in 1..k : i <= j => g[i] <= g[j]}} : k \in 0..n}

----------------------------------------------------------------------------
(* State machine *)

\* the script runs with the given widget state
Run(range, sel) ==
  \E page \in {Render(df, range, sel)} :
     /\ date_range' = range
     /\ selected' = sel
     /\ filtered_df' = page.filtered_df
     /\ error' = page.error
     /\ metrics' = page.metrics
     /\ charts' = page.charts
     /\ table_shown' = page.table_shown
     /\ download' = page.download
     /\ df' = page.df

\* the first run of a session on a loaded table: every widget at its default
FirstRun(frame) ==
  \E page \in {Render(frame, DefaultRange(frame), DefaultSelected(frame))} :
     /\ df = page.df
     /\ date_range = DefaultRange(frame)
     /\ selected = DefaultSelected(frame)
     /\ filtered_df = page.filtered_df
     /\ error = page.error
     /\ metrics = page.metrics
     /\ charts = page.charts
     /\ table_shown = page.table_shown
     /\ download = page.download

\* a session on a file with every column; a file whose issue dates do not span
\* two days gives the slider no range (min_value < max_value) and is left out
Init ==
  \E records \in Tables(Pool, MaxRows) :
     /\ SliderDefined(load_data(AllColumns, records))
     /\ FirstRun(load_data(AllColumns, records))

\* the user moves the date slider
ChangeDateRange ==
  /\ HasColumn(df, "issue_date")
  /\ \E lo \in min_date(df)..max_date(df) : \E hi \in lo..max_date(df) :
        /\ <<lo, hi>> # date_range
        /\ Run(<<lo, hi>>, selected)

\* the user changes one multiselect
ChangeSelection ==
  \E col \in FilterColumns(df) : \E values \in SUBSET options(df, col) :
     /\ values # selected[col]
     /\ Run(date_range, [selected EXCEPT ![col] = values])

Next == ChangeDateRange \/ ChangeSelection

Spec == Init /\ [][Next]_vars

----------------------------------------------------------------------------
(* Tables that lack some of the optional columns *)

\* the columns of a file from which the columns in missing are left out
ColumnsWithout(missing) == SelectSeq(AllColumns, LAMBDA c : c \notin missing)

\* a session on a file that lacks at most MaxMissing of the columns
InitCols ==
  \E missing \in {m \in SUBSET Range(AllColumns) : Cardinality(m) <= MaxMissing} :
     /\ SliderDefined(load_data(ColumnsWithout(missing), << Pool[3], Pool[4], Pool[5] >>))
     /\ FirstRun(load_data(ColumnsWithout(missing), << Pool[3], Pool[4], Pool[5] >>))

SpecCols == InitCols /\ [][Next]_vars

----------------------------------------------------------------------------
(* Tables with more than ten titles *)

TitleNames ==
  << "T01", "T02", "T03", "T04", "T05", "T06", "T07", "T08", "T09", "T10",
     "T11", "T12", "T13", "T14" >>

TopColumns ==
  << "borrower_id", "book_title", "genre", "issue_date", "return_date",
     "overdue_status" >>

\* every title is borrowed once on day 0, the titles in again a second time on
\* day 1, and one record has no title
TopRecords(again) ==
  [i \in 1..NTitles |-> [Pool[1] EXCEPT !.book_title = TitleNames[i]]]
  \o << [Pool[1] EXCEPT !.book_title = NA, !.issue_date = At(1, 0)] >>
  \o [k \in 1..Cardinality(again) |->
        [Pool[1] EXCEPT !.issue_date = At(1, 0),
                        !.book_title =
           TitleNames[CHOOSE i \in again :
                        Cardinality({j \in again : j >= i}) = k]]]

\* a session on a file with NTitles titles
InitTop ==
  \E again \in SUBSET (1..NTitles) :
     /\ SliderDefined(load_data(TopColumns, TopRecords(again)))
     /\ FirstRun(load_data(TopColumns, TopRecords(again)))

SpecTop == InitTop /\ [][Next]_vars

----------------------------------------------------------------------------
(* Properties *)

\* the issue_date of a row lies in the chosen interval (no date filter without
\* the column)
InInterval(r) ==
  HasColumn(df, "issue_date") =>
     /\ r.data["issue_date"] # NaT
     /\ date_range[1] <= DateOf(r.data["issue_date"])
     /\ DateOf(r.data["issue_date"]) <= date_range[2]

\* the row's value is in every non-empty selection
InSelections(r) ==
  \A c \in FilterColumns(df) : selected[c] # {} => r.data[c] \in selected[c]

\* every widget is at its default
IsDefault == date_range = DefaultRange(df) /\ selected = DefaultSelected(df)

\* the value of the k-th metric
MetricValue(k) == metrics[k][2]

\* a chart with this title is on the page
HasChart(title) == \E k \in 1..Len(charts) : charts[k][1] = title

\* the data of the chart with this title
ChartData(title) == charts[CHOOSE k \in 1..Len(charts) : charts[k][1] = title][2]

\* C1: the filtered view is exactly the loaded rows whose issue_date lies in
\* [lo, hi] and whose value, for every categorical column with a non-empty
\* selection, is in that selection; rows keep their order and their columns
C1_FilterExact ==
  /\ filtered_df.columns = df.columns
  /\ filtered_df.rows = SelectSeq(df.rows, LAMBDA r : InInterval(r) /\ InSelections(r))

\* a narrowed interval, a narrowed selection and an emptied selection together,
\* with a row kept and a dated row dropped
C1_Witness ==
  /\ HasColumn(df, "issue_date")
  /\ date_range # DefaultRange(df)
  /\ \E c \in FilterColumns(df) : selected[c] # {} /\ selected[c] # options(df, c)
  /\ \E c \in FilterColumns(df) : selected[c] = {}
  /\ Len(filtered_df.rows) >= 1
  /\ \E i \in 1..Len(df.rows) :
        /\ df.rows[i].data["issue_date"] # NaT
        /\ df.rows[i] \notin Range(filtered_df.rows)

\* C2: with a column's selection empty, the view is the one obtained by
\* selecting every observed value of that column
C2_EmptySelectionMatchesAll ==
  \A c \in FilterColumns(df) :
     selected[c] = {} =>
        filtered_df = Filtered(df, date_range, [selected EXCEPT ![c] = options(df, c)])

\* a column with two observed values has its selection emptied and rows of
\* both values are in the view
C2_Witness ==
  \E c \in FilterColumns(df) :
     /\ selected[c] = {}
     /\ \E i, j \in 1..Len(filtered_df.rows) :
           filtered_df.rows[i].data[c] # filtered_df.rows[j].data[c]

\* C3: a row whose issue_date falls on lo or on hi, and that passes the
\* categorical filters, is in the view
C3_InclusiveBounds ==
  HasColumn(df, "issue_date") =>
     \A i \in 1..Len(df.rows) :
        ( /\ df.rows[i].data["issue_date"] # NaT
          /\ DateOf(df.rows[i].data["issue_date"]) \in {date_range[1], date_range[2]}
          /\ InSelections(df.rows[i]) )
        => df.rows[i] \in Range(filtered_df.rows)

\* the slider was moved, and a row issued on day hi after midnight is kept
C3_Witness ==
  /\ HasColumn(df, "issue_date")
  /\ date_range # DefaultRange(df)
  /\ \E i \in 1..Len(filtered_df.rows) :
        /\ DateOf(filtered_df.rows[i].data["issue_date"]) = date_range[2]
        /\ filtered_df.rows[i].data["issue_date"] > At(date_range[2], 0)
  /\ \E i \in 1..Len(filtered_df.rows) :
        DateOf(filtered_df.rows[i].data["issue_date"]) = date_range[1]

\* C4: the metrics on the page belong to the current view: Total Books Issued
\* is its row count, and Unique Borrowers and Books Not Returned do not exceed it
C4_MetricsConsistent ==
  error = "none" =>
     /\ Len(metrics) = 4
     /\ metrics[1][1] = "Total Books Issued" /\ MetricValue(1) = Len(filtered_df.rows)
     /\ metrics[2][1] = "Unique Borrowers" /\ MetricValue(2) <= MetricValue(1)
     /\ metrics[3][1] = "Books Not Returned" /\ MetricValue(3) <= MetricValue(1)

\* after a filter change the view is smaller than the table and the metrics
\* are those of the view
C4_Witness ==
  /\ error = "none"
  /\ ~IsDefault
  /\ Len(filtered_df.rows) < Len(df.rows)
  /\ MetricValue(1) >= 1
  /\ MetricValue(3) >= 1

\* C5: with any of the optional columns absent a run ends without an error
\* and shows the metrics and the table
C5_MissingColumnsNoError == error = "none" /\ table_shown /\ Len(metrics) = 4

\* C6: a view without rows shows no chart and offers no download while the
\* four metrics are shown and are zero; charts and download only come with a
\* view that has rows
C6_EmptyViewZeroMetrics ==
  /\ IsEmpty(filtered_df) =>
        /\ charts = <<>>
        /\ download = <<>>
        /\ Len(metrics) = 4
        /\ \A k \in 1..4 : MetricValue(k) = 0
  /\ (charts # <<>> \/ download # <<>>) => ~IsEmpty(filtered_df)

\* C7: no run changes the loaded table
C7_TableImmutable == [][df' = df]_vars

\* a filter change has produced a view that differs from the table
C7_Witness ==
  /\ ~IsDefault
  /\ Len(filtered_df.rows) >= 1
  /\ Len(filtered_df.rows) < Len(df.rows)

\* C8: the metrics are computed without an error; Books Not Returned is the
\* number of rows of the view without return_date, Late Returns the number of
\* rows whose overdue_status is present and contains "Late" or "Overdue"
C8_MetricCounts ==
  /\ error = "none"
  /\ MetricValue(3) =
        Cardinality({i \in 1..Len(filtered_df.rows) :
                        filtered_df.rows[i].data["return_date"] = NaT})
  /\ MetricValue(4) =
        Cardinality({i \in 1..Len(filtered_df.rows) :
           /\ filtered_df.rows[i].data["overdue_status"] # NoText
           /\ \/ Contains(filtered_df.rows[i].data["overdue_status"], Late)
              \/ Contains(filtered_df.rows[i].data["overdue_status"], Overdue)})

\* the titles of the view
ViewTitles == Range(Column(filtered_df, "book_title")) \ {NA}

\* the number of rows of the view with this title
TitleCount(t) ==
  Cardinality({i \in 1..Len(filtered_df.rows) :
                  filtered_df.rows[i].data["book_title"] = t})

\* C9: the Top 10 chart of a view with rows holds at most 10 titles (all of
\* them when there are no more than 10), each once and with its row count in
\* the view, in descending order of count, and no title left out has a count
\* above the smallest one shown
C9_TopTen ==
  (error = "none" /\ ~IsEmpty(filtered_df) /\ HasColumn(filtered_df, "book_title")) =>
     /\ HasChart("Top 10 Most Borrowed Books")
     /\ LET data == ChartData("Top 10 Most Borrowed Books")
            shown == {data[k][1] : k \in 1..Len(data)}
        IN /\ Len(data) <= 10
           /\ Cardinality(ViewTitles) <= 10 => Len(data) = Cardinality(ViewTitles)
           /\ Cardinality(ViewTitles) > 10 => Len(data) = 10
           /\ Cardinality(shown) = Len(data)
           /\ shown \subseteq ViewTitles
           /\ \A k \in 1..Len(data) : data[k][2] = TitleCount(data[k][1])
           /\ \A j, k \in 1..Len(data) : j < k => data[j][2] >= data[k][2]
           /\ \A t \in ViewTitles \ shown :
                 \A k \in 1..Len(data) : TitleCount(t) <= data[k][2]

\* more than ten titles in the view; the last title met was borrowed twice and
\* heads the chart, and a title borrowed once is left out
C9_Witness ==
  /\ HasChart("Top 10 Most Borrowed Books")
  /\ Cardinality(ViewTitles) > 10
  /\ ChartData("Top 10 Most Borrowed Books")[1] = << TitleNames[NTitles], 2 >>
  /\ ChartData("Top 10 Most Borrowed Books")[10][2] = 1

\* C10 as claimed: with every widget at its default the view holds every row
\* of the loaded table
C10_DefaultKeepsEveryRow == IsDefault => filtered_df.rows = df.rows

\* C10: with every widget at its default the view holds every row whose
\* issue_date is present (every row when there is no issue_date column), rows
\* with an absent categorical value included
C10_DefaultKeepsDatedRows ==
  IsDefault =>
     filtered_df.rows =
        SelectSeq(df.rows, LAMBDA r :
                    HasColumn(df, "issue_date") => r.data["issue_date"] # NaT)

\* defaults on a table that spans two days and shows its metrics; a row without
\* genre is kept and a row without issue_date is dropped
C10_Witness ==
  /\ IsDefault
  /\ error = "none"
  /\ HasColumn(df, "issue_date") /\ HasColumn(df, "genre")
  /\ min_date(df) < max_date(df)
  /\ Len(filtered_df.rows) >= 2
  /\ \E i \in 1..Len(filtered_df.rows) : filtered_df.rows[i].data["genre"] = NA
  /\ \E i \in 1..Len(df.rows) :
        /\ df.rows[i].data["issue_date"] = NaT
        /\ df.rows[i] \notin Range(filtered_df.rows)

====
